---- MODULE Spec2Model ----
(***************************************************************************)
(* Model of icicle's argument parser (Args::parse, src/src/args.rs) and of *)
(* the validation/dispatch engine (Command::run, src/src/lib.rs).          *)
(*                                                                         *)
(* Strings are sequences of one-character strings, so that starts_with,    *)
(* splitn(2, '=') and chars().skip(1) are computed, not assumed.           *)
(* A command tree is an arena: node id -> Command record; id 1 is the      *)
(* command on which run is called.  A help callback is identified by the   *)
(* id of the command that owns it, 0 is None (default_help is used).       *)
(***************************************************************************)
EXTENDS Integers, Sequences, FiniteSets

\* Longest token list handed to run.
MaxTokens == 3

----------------------------------------------------------------------------
(* String literals used by the code. *)

Dash == "-"
EqSign == "="
Terminator == <<"-", "-">>
HelpKey == <<"-", "-", "h", "e", "l", "p">>
TrueStr == <<"t", "r", "u", "e">>

(* The tokens the input lists are drawn from. *)
Tokens ==
    { <<"a">>, <<"b">>, <<"c">>, <<"f">>,
      Terminator,
      HelpKey,
      <<"-", "-", "x", "=", "v">>,
      <<"-", "x", "y", "=", "v">>,
      <<"-", "y">> }

----------------------------------------------------------------------------
(* Command trees. *)

Nodes == 1 .. 4
Root == 1

CLIOption(names, required) == [names |-> names, required |-> required]
CLIArgument(required, array) == [required |-> required, array |-> array]

\* names of each command: names[1] is canonical, the rest are aliases.
NodeNames(n) ==
    CASE n = 1 -> << <<"r">> >>
      [] n = 2 -> << <<"a">> >>
      [] n = 3 -> << <<"a">>, <<"b">> >>
      [] n = 4 -> << <<"c">>, <<"f">> >>

\* children of each command, in declared order.
NodeChildren(n) ==
    CASE n = 1 -> <<2, 3>>
      [] n = 2 -> <<4>>
      [] n = 3 -> <<>>
      [] n = 4 -> <<>>

\* the command that owns n (children are owned by exactly one command).
Parent(n) ==
    CHOOSE p \in Nodes : \E k \in 1 .. Len(NodeChildren(p)) : NodeChildren(p)[k] = n

\* the commands from the root down to n.
RECURSIVE PathFromRoot(_)
PathFromRoot(n) ==
    IF n = Root THEN << Root >> ELSE Append(PathFromRoot(Parent(n)), n)

\* the option declarations used below: "-x, --x" and "-y".
OptionX(required) == CLIOption(<< <<"-", "x">>, <<"-", "-", "x">> >>, required)
OptionY(required) == CLIOption(<< <<"-", "y">> >>, required)

\* what one command may declare: an action or none, its options and its
\* arguments.  CLIArgument's required and array are independent fields.
Declarations ==
    { [act |-> FALSE, po |-> <<>>, pa |-> <<>>],
      [act |-> TRUE,  po |-> << OptionX(TRUE), OptionY(TRUE) >>, pa |-> <<>>],
      [act |-> TRUE,  po |-> <<>>, pa |-> << CLIArgument(FALSE, TRUE) >>],
      [act |-> TRUE,  po |-> << OptionX(FALSE), OptionY(TRUE) >>,
                      pa |-> << CLIArgument(TRUE, FALSE), CLIArgument(TRUE, TRUE) >>],
      [act |-> TRUE,  po |-> <<>>,
                      pa |-> << CLIArgument(FALSE, FALSE), CLIArgument(TRUE, FALSE) >>],
      [act |-> FALSE, po |-> <<>>, pa |-> << CLIArgument(TRUE, TRUE) >>] }

\* A tree is the fixed shape above together with: the command cn that carries
\* the declarations decl (the other commands declare nothing), and the set hs
\* of the commands that have a help callback.
Trees == [ cn : {1, 2}, decl : Declarations, hs : SUBSET {1, 2, 4} ]

\* the Command record of node n of tree t.
Command(t, n) ==
    [ names     |-> NodeNames(n),
      children  |-> NodeChildren(n),
      action    |-> (n = t.cn /\ t.decl.act),
      help      |-> (n \in t.hs),
      options   |-> IF n = t.cn THEN t.decl.po ELSE <<>>,
      arguments |-> IF n = t.cn THEN t.decl.pa ELSE <<>> ]

----------------------------------------------------------------------------
(* Results and help reasons. *)

OkUnit == [ok |-> TRUE, err |-> <<>>]
Err(e) == [ok |-> FALSE, err |-> e]
Pending == [ok |-> FALSE, err |-> <<"pending">>]

UserAsked == <<"UserAsked">>
MissingAction == <<"MissingAction">>
MissingOption(option) == <<"MissingOption", option>>
MissingArgument(start, end) == <<"MissingArgument", start, end>>

\* what an action may return: Ok(()) or an error of its own.
ActionResults == { OkUnit, Err(<<"ActionError">>) }

----------------------------------------------------------------------------
VARIABLES
    tree,             \* the command tree run is called on
    current_command,  \* Args::parse: current_command
    opts,             \* parsed_args.opts
    pos,              \* parsed_args.pos
    help_fn,          \* Args::parse: help_fn (0 is None)
    ignore_options,   \* Args::parse: ignore_options
    is_subcommand,    \* Args::parse: is_subcommand of the last iteration
    arg,              \* Args::parse: the loop variable of the last iteration
    consumed,         \* number of tokens taken from the argument list
    pc,               \* "parse" inside the loop of parse, "done" after run
    result,           \* what run returned
    help_calls,       \* help renderings made by run, in order
    action_calls      \* action invocations made by run, in order

vars == << tree, current_command, opts, pos, help_fn, ignore_options,
           is_subcommand, arg, consumed, pc, result, help_calls, action_calls >>

----------------------------------------------------------------------------
(* Helpers of Args::parse. *)

\* a comparison with the whole string in place of starts_with.
StartsWithExact(s, p) == s = p

\* str::starts_with
StartsWith(s, p) ==
    /\ Len(s) >= Len(p)
    /\ SubSeq(s, 1, Len(p)) = p

\* cmd.names.iter().any(|alias| alias == &arg)
NameMatches(cmd, a) == \E k \in 1 .. Len(cmd.names) : cmd.names[k] = a

\* the loop over current_command.children with its break: the index of the
\* first child one of whose names equals the argument, 0 when there is none.
RECURSIVE FirstMatchFrom(_, _, _, _)
FirstMatchFrom(t, children, k, a) ==
    IF k > Len(children) THEN 0
    ELSE IF NameMatches(Command(t, children[k]), a) THEN k
    ELSE FirstMatchFrom(t, children, k + 1, a)

\* the same loop without its break: the last matching child wins.
RECURSIVE LastMatchFrom(_, _, _, _)
LastMatchFrom(t, children, k, a) ==
    IF k < 1 THEN 0
    ELSE IF NameMatches(Command(t, children[k]), a) THEN k
    ELSE LastMatchFrom(t, children, k - 1, a)

FirstMatchNoBreak(t, children, a) == LastMatchFrom(t, children, Len(children), a)

FirstMatch(t, children, a) == FirstMatchFrom(t, children, 1, a)

\* position of the first '=' of s at or after k, 0 when there is none.
RECURSIVE FindEq(_, _)
FindEq(s, k) ==
    IF k > Len(s) THEN 0
    ELSE IF s[k] = EqSign THEN k
    ELSE FindEq(s, k + 1)

\* arg.split('=') in place of splitn(2, '='): the second piece ends at the
\* second '='.
SplitEvery(s) ==
    LET e == FindEq(s, 1)
        e2 == IF e = 0 THEN 0 ELSE FindEq(s, e + 1)
    IN  IF e = 0 THEN << s >>
        ELSE << SubSeq(s, 1, e - 1),
                SubSeq(s, e + 1, IF e2 = 0 THEN Len(s) ELSE e2 - 1) >>

\* arg.splitn(2, '='): one piece, or the pieces before and after the first '='.
SplitN2(s) ==
    LET e == FindEq(s, 1)
    IN  IF e = 0 THEN << s >>
        ELSE << SubSeq(s, 1, e - 1), SubSeq(s, e + 1, Len(s)) >>

\* split.get(1).unwrap_or(&"true")
SplitValue(split) == IF Len(split) >= 2 THEN split[2] ELSE TrueStr

\* entry(key).or_insert(value) in place of insert: the first value is kept.
InsertIfAbsent(map, key, value) ==
    [k \in (DOMAIN map) \cup {key} |-> IF k \in DOMAIN map THEN map[k] ELSE value]

\* HashMap::insert
Insert(map, key, value) ==
    [k \in (DOMAIN map) \cup {key} |-> IF k = key THEN value ELSE map[k]]

\* the collect without skip(1): the leading '-' is taken for an option.
SkipNone(s) == s

\* split[0].chars().skip(1).collect()
SkipFirst(s) == SubSeq(s, 2, Len(s))

\* for ch in chars { opts.insert(format!("-{ch}"), value) }
RECURSIVE InsertShort(_, _, _, _)
InsertShort(map, chars, k, value) ==
    IF k > Len(chars) THEN map
    ELSE InsertShort(Insert(map, <<Dash, chars[k]>>, value), chars, k + 1, value)

\* help_fn = cmd.help.as_ref().or(help_fn)
DescendHelp(t, child, old) == IF Command(t, child).help THEN child ELSE old

----------------------------------------------------------------------------
(* Helpers of Command::run. *)

\* Args::has
Has(map, name) == name \in DOMAIN map

\* Args::get_string: << >> is None, << v >> is Some(v)
GetString(map, name) == IF name \in DOMAIN map THEN << map[name] >> ELSE << >>

\* Args::has_at, pos counted from 0
HasAt(p, at) == at < Len(p)

\* the inner loop looking at the first name only.
OptionFoundFirstName(option, map) == Has(map, option.names[1])

\* the inner loop over option.names
OptionFound(option, map) ==
    \E k \in 1 .. Len(option.names) : Has(map, option.names[k])

\* the loop over command.options: index of the first required option that
\* is not found, 0 when there is none.
RECURSIVE FirstMissingOption(_, _, _)
FirstMissingOption(options, k, map) ==
    IF k > Len(options) THEN 0
    ELSE IF options[k].required /\ ~OptionFound(options[k], map) THEN k
    ELSE FirstMissingOption(options, k + 1, map)

\* the loop over command.arguments.iter().enumerate(): 0-based position of
\* the first required argument without a positional, -1 when there is none.
RECURSIVE FirstMissingArgument(_, _, _)
FirstMissingArgument(arguments, at, p) ==
    IF at >= Len(arguments) THEN -1
    ELSE IF arguments[at + 1].required /\ ~HasAt(p, at) THEN at
    ELSE FirstMissingArgument(arguments, at + 1, p)

\* let end = if arg.array { command.arguments.len() } else { pos }
ArgumentEnd(arguments, at) ==
    IF arguments[at + 1].array THEN Len(arguments) ELSE at

\* the reason run gives when args.has("--help")
HelpFlagReason == MissingAction

\* match help_option { Some(help) => help(reason, command, args),
\*                     None => command.default_help(reason) }
RenderHelp(reason) ==
    [ fn      |-> help_fn,
      reason  |-> reason,
      command |-> current_command,
      opts    |-> opts,
      pos     |-> pos ]

\* the action called on freshly built Args instead of the parsed ones.
InvokeEmptyArgs(r) ==
    [ command |-> current_command, opts |-> << >>, pos |-> << >>, returned |-> r ]

\* Some(action) => action(args), the action returning r
Invoke(r) ==
    [ command |-> current_command, opts |-> opts, pos |-> pos, returned |-> r ]

----------------------------------------------------------------------------
Init ==
    /\ tree \in Trees
    /\ current_command = Root
    /\ opts = << >>
    /\ pos = << >>
    /\ help_fn = 0
    /\ ignore_options = FALSE
    /\ is_subcommand = FALSE
    /\ arg = << >>
    /\ consumed = 0
    /\ pc = "parse"
    /\ result = Pending
    /\ help_calls = << >>
    /\ action_calls = << >>

RunUnchanged == << help_calls, action_calls, result, tree >>

\* one iteration of `for arg in arguments` starts: the next token is a.
Take(a) ==
    /\ pc = "parse"
    /\ consumed < MaxTokens
    /\ consumed' = consumed + 1
    /\ arg' = a
    /\ pc' = "parse"
    /\ UNCHANGED RunUnchanged

\* the token names a child of current_command: descend and continue.
ParseSubcommand(a) ==
    LET children == Command(tree, current_command).children
        k == FirstMatch(tree, children, a)
    IN  /\ Take(a)
        /\ k # 0
        /\ current_command' = children[k]
        /\ help_fn' = DescendHelp(tree, children[k], help_fn)
        /\ is_subcommand' = TRUE
        /\ UNCHANGED << opts, pos, ignore_options >>

NoChild(a) == FirstMatch(tree, Command(tree, current_command).children, a) = 0

\* arg == "--" while options are parsed
ParseTerminator(a) ==
    /\ Take(a)
    /\ NoChild(a)
    /\ ~ignore_options
    /\ a = Terminator
    /\ ignore_options' = TRUE
    /\ is_subcommand' = FALSE
    /\ UNCHANGED << current_command, help_fn, opts, pos >>

\* arg.starts_with("--")
ParseLongOption(a) ==
    /\ Take(a)
    /\ NoChild(a)
    /\ ~ignore_options
    /\ a # Terminator
    /\ StartsWith(a, <<Dash, Dash>>)
    /\ LET split == SplitN2(a)
       IN  opts' = Insert(opts, split[1], SplitValue(split))
    /\ is_subcommand' = FALSE
    /\ UNCHANGED << current_command, help_fn, pos, ignore_options >>

\* arg.starts_with('-')
ParseShortOptions(a) ==
    /\ Take(a)
    /\ NoChild(a)
    /\ ~ignore_options
    /\ a # Terminator
    /\ ~StartsWith(a, <<Dash, Dash>>)
    /\ StartsWith(a, <<Dash>>)
    /\ LET split == SplitN2(a)
       IN  opts' = InsertShort(opts, SkipFirst(split[1]), 1, SplitValue(split))
    /\ is_subcommand' = FALSE
    /\ UNCHANGED << current_command, help_fn, pos, ignore_options >>

\* parsed_args.pos.push(arg)
ParsePositional(a) ==
    /\ Take(a)
    /\ NoChild(a)
    /\ \/ ignore_options
       \/ /\ a # Terminator
          /\ ~StartsWith(a, <<Dash, Dash>>)
          /\ ~StartsWith(a, <<Dash>>)
    /\ pos' = Append(pos, a)
    /\ is_subcommand' = FALSE
    /\ UNCHANGED << current_command, help_fn, opts, ignore_options >>

ParseUnchanged ==
    << tree, current_command, opts, pos, help_fn, ignore_options,
       is_subcommand, arg, consumed >>

\* the argument list is exhausted and parse returns to run.
Returned == pc = "parse"

\* if args.has("--help") { ... return Ok(()) }
RunHelp ==
    /\ Returned
    /\ Has(opts, HelpKey)
    /\ help_calls' = Append(help_calls, RenderHelp(HelpFlagReason))
    /\ result' = OkUnit
    /\ pc' = "done"
    /\ UNCHANGED action_calls
    /\ UNCHANGED ParseUnchanged

\* a required option is not found
RunMissingOption ==
    LET options == Command(tree, current_command).options
        k == FirstMissingOption(options, 1, opts)
    IN  /\ Returned
        /\ ~Has(opts, HelpKey)
        /\ k # 0
        /\ help_calls' = Append(help_calls, RenderHelp(MissingOption(options[k])))
        /\ result' = Err(MissingOption(options[k]))
        /\ pc' = "done"
        /\ UNCHANGED action_calls
        /\ UNCHANGED ParseUnchanged

\* a required argument has no positional
RunMissingArgument ==
    LET cmd == Command(tree, current_command)
        at == FirstMissingArgument(cmd.arguments, 0, pos)
    IN  /\ Returned
        /\ ~Has(opts, HelpKey)
        /\ FirstMissingOption(cmd.options, 1, opts) = 0
        /\ at # -1
        /\ LET end == ArgumentEnd(cmd.arguments, at)
           IN  /\ help_calls' = Append(help_calls, RenderHelp(MissingArgument(at, end)))
               /\ result' = Err(MissingArgument(at, end))
        /\ pc' = "done"
        /\ UNCHANGED action_calls
        /\ UNCHANGED ParseUnchanged

Validated ==
    LET cmd == Command(tree, current_command)
    IN  /\ Returned
        /\ ~Has(opts, HelpKey)
        /\ FirstMissingOption(cmd.options, 1, opts) = 0
        /\ FirstMissingArgument(cmd.arguments, 0, pos) = -1

\* Some(action) => action(args)
RunAction ==
    /\ Validated
    /\ Command(tree, current_command).action
    /\ \E r \in ActionResults :
          /\ action_calls' = Append(action_calls, Invoke(r))
          /\ result' = r
    /\ pc' = "done"
    /\ UNCHANGED help_calls
    /\ UNCHANGED ParseUnchanged

\* None => { help with MissingAction; Ok(()) }
RunNoAction ==
    /\ Validated
    /\ ~Command(tree, current_command).action
    /\ help_calls' = Append(help_calls, RenderHelp(MissingAction))
    /\ result' = OkUnit
    /\ pc' = "done"
    /\ UNCHANGED action_calls
    /\ UNCHANGED ParseUnchanged

Next ==
    \/ \E a \in Tokens : ParseSubcommand(a)
    \/ \E a \in Tokens : ParseTerminator(a)
    \/ \E a \in Tokens : ParseLongOption(a)
    \/ \E a \in Tokens : ParseShortOptions(a)
    \/ \E a \in Tokens : ParsePositional(a)
    \/ RunHelp
    \/ RunMissingOption
    \/ RunMissingArgument
    \/ RunAction
    \/ RunNoAction

Spec == Init /\ [][Next]_vars

----------------------------------------------------------------------------
(* A second family of inputs, for the token classifier: few trees, and     *)
(* tokens of every shape the classifier tells apart, among them "-",       *)
(* "-=v", a long option without "=" and one with two "=".                  *)

OptionTokens ==
    { <<"a">>, <<"f">>,
      Terminator,
      HelpKey,
      <<"-", "-", "x">>,
      <<"-", "-", "x", "=", "v", "=", "w">>,
      <<"-", "y">>,
      <<"-", "y", "=", "w">>,
      <<"-", "x", "y", "=", "v">>,
      <<"-">>,
      <<"-", "=", "v">> }

OptionTrees == [ cn : {1}, decl : Declarations, hs : { {}, {1, 2} } ]

InitOptions ==
    /\ Init
    /\ tree \in OptionTrees

NextOptions ==
    \/ \E a \in OptionTokens : ParseSubcommand(a)
    \/ \E a \in OptionTokens : ParseTerminator(a)
    \/ \E a \in OptionTokens : ParseLongOption(a)
    \/ \E a \in OptionTokens : ParseShortOptions(a)
    \/ \E a \in OptionTokens : ParsePositional(a)
    \/ RunHelp
    \/ RunMissingOption
    \/ RunMissingArgument
    \/ RunAction
    \/ RunNoAction

SpecOptions == InitOptions /\ [][NextOptions]_vars

----------------------------------------------------------------------------
(* Vocabulary of the properties. *)

\* the number of descents made so far: the depth of current_command.
Descents == Len(PathFromRoot(current_command)) - 1

\* a step that takes one token from the argument list
TokenStep == consumed' = consumed + 1

\* the smallest element of a non-empty set of integers
Least(S) == CHOOSE k \in S : \A j \in S : k <= j
Greatest(S) == CHOOSE k \in S : \A j \in S : k >= j

\* indices of the required options of the resolved command none of whose
\* names is a key of opts
MissingOptions ==
    LET options == Command(tree, current_command).options
    IN  { k \in 1 .. Len(options) :
            /\ options[k].required
            /\ \A j \in 1 .. Len(options[k].names) :
                  options[k].names[j] \notin DOMAIN opts }

\* 0-based indices of the required arguments of the resolved command with
\* pos.len() <= index
MissingArguments ==
    LET arguments == Command(tree, current_command).arguments
    IN  { at \in 0 .. Len(arguments) - 1 :
            arguments[at + 1].required /\ Len(pos) <= at }

HelpAsked == HelpKey \in DOMAIN opts

\* validation passed: no "--help", no required option or argument missing
Passed == ~HelpAsked /\ MissingOptions = {} /\ MissingArguments = {}

\* the children of the command the last token descended from, and the
\* indices of those one of whose names is the token a
Siblings == NodeChildren(Parent(current_command))
Carrying(a) ==
    { k \in 1 .. Len(Siblings) :
        \E j \in 1 .. Len(NodeNames(Siblings[k])) : NodeNames(Siblings[k])[j] = a }
\* names[0] of the command reached
Canonical == NodeNames(current_command)[1]

\* one help rendering for the resolved command, by the resolved callback
\* (or the default renderer), with the given reason and the parsed Args
HelpedOnce(reason) ==
    help_calls = << [ fn |-> help_fn, reason |-> reason,
                      command |-> current_command,
                      opts |-> opts, pos |-> pos ] >>

----------------------------------------------------------------------------
(* C1: subcommand matching stops for good at the first token that is not a *)
(* child name: a token taken after a non-matching one never changes the    *)
(* resolved command, and a plain such token is appended to pos.            *)
C1_MatchingStopsAtFirstMiss ==
    [][ (TokenStep /\ consumed > Descents)
          => /\ current_command' = current_command
             /\ (~StartsWith(arg', <<Dash>>) => pos' = Append(pos, arg')) ]_vars

(* C2: once "--" has been seen every later token is appended to pos as it  *)
(* is and adds no key to opts; the "--" itself adds nothing to opts or pos.*)
C2_AfterTerminatorAllPositional ==
    [][ TokenStep
          => /\ ignore_options => (pos' = Append(pos, arg') /\ opts' = opts)
             /\ (~ignore_options /\ ignore_options')
                   => (arg' = Terminator /\ pos' = pos /\ opts' = opts) ]_vars

(* C3: with "--help" among the parsed options run renders help once with   *)
(* reason UserAsked, validates nothing, invokes no action and returns Ok.  *)
C3_HelpFlagIsUserAsked ==
    (pc = "done" /\ HelpAsked)
        => /\ HelpedOnce(UserAsked)
           /\ action_calls = << >>
           /\ result = OkUnit

(* C4: without "--help", when a required option of the resolved command    *)
(* has none of its names in opts, run returns MissingOption of the first   *)
(* such option in declaration order, renders help once with that reason,   *)
(* invokes no action and reports no MissingArgument; when no required      *)
(* option of the resolved command is missing, no MissingOption is reported,*)
(* whatever the other commands of the tree declare.                        *)
C4_FirstMissingOptionReported ==
    (pc = "done" /\ ~HelpAsked)
        => LET options == Command(tree, current_command).options
           IN  /\ MissingOptions # {}
                    => /\ result = Err(MissingOption(options[Least(MissingOptions)]))
                       /\ HelpedOnce(MissingOption(options[Least(MissingOptions)]))
                       /\ action_calls = << >>
               /\ MissingOptions = {}
                    => (result.ok \/ result.err[1] # "MissingOption")

\* MissingOption of the second declared option (the first is optional and
\* absent) although a required argument is missing as well
C4_Witness ==
    /\ pc = "done"
    /\ ~HelpAsked
    /\ MissingOptions = {2}
    /\ MissingArguments # {}
    /\ result = Err(MissingOption(OptionY(TRUE)))

(* C5: without "--help" and with every required option present, when i is  *)
(* the lowest index of a required argument with pos.len() <= i, run fails  *)
(* with MissingArgument(i, end), end = arguments.len() - 1 for an array    *)
(* argument and end = i otherwise, and invokes no action.                  *)
C5_MissingArgumentRange ==
    (pc = "done" /\ ~HelpAsked /\ MissingOptions = {} /\ MissingArguments # {})
        => LET arguments == Command(tree, current_command).arguments
               i == Least(MissingArguments)
               end == IF arguments[i + 1].array THEN Len(arguments) - 1 ELSE i
           IN  /\ result = Err(MissingArgument(i, end))
               /\ action_calls = << >>

(* C6: when validation passes and the resolved command has no action, run  *)
(* renders help with reason MissingAction and returns a non-error outcome  *)
(* that differs from the outcome of a run whose action returned success.   *)
C6_MissingActionDistinguishable ==
    (pc = "done" /\ Passed /\ ~Command(tree, current_command).action)
        => /\ HelpedOnce(MissingAction)
           /\ result.ok
           /\ \A r \in ActionResults : r.ok => result # r

(* C7: when validation passes and the resolved command has an action, run  *)
(* invokes it exactly once with the parsed opts and pos, renders no help   *)
(* and returns what the action returned.                                   *)
C7_ActionInvokedOnce ==
    (pc = "done" /\ Passed /\ Command(tree, current_command).action)
        => /\ Len(action_calls) = 1
           /\ action_calls[1].command = current_command
           /\ action_calls[1].opts = opts
           /\ action_calls[1].pos = pos
           /\ help_calls = << >>
           /\ result = action_calls[1].returned

\* an action that ran on options and positionals and returned its own error
C7_Witness ==
    /\ pc = "done"
    /\ Passed
    /\ Len(action_calls) = 1
    /\ action_calls[1].pos # << >>
    /\ DOMAIN action_calls[1].opts # {}
    /\ ~result.ok
    /\ result = Err(<<"ActionError">>)

(* C8 as claimed: a token matching names of several children descends into *)
(* the first of them in declared order, and the canonical name (names[0])  *)
(* of the command reached resolves to that same command.                   *)
C8_AliasSameAsCanonical ==
    (pc = "parse" /\ is_subcommand)
        => /\ current_command = Siblings[Least(Carrying(arg))]
           /\ Siblings[FirstMatch(tree, Siblings, Canonical)] = current_command

(* C8 as amended: a token matching names of several children descends into *)
(* the first of them in declared order; the canonical name of the command  *)
(* reached resolves to that same command whenever no earlier sibling       *)
(* carries that canonical name too.                                        *)
C8_FirstMatchWins ==
    (pc = "parse" /\ is_subcommand)
        => /\ current_command = Siblings[Least(Carrying(arg))]
           /\ (Siblings[Least(Carrying(Canonical))] = current_command
                 => Siblings[FirstMatch(tree, Siblings, Canonical)] = current_command)
           /\ (Siblings[Least(Carrying(Canonical))] # current_command
                 => Siblings[FirstMatch(tree, Siblings, Canonical)]
                      = Siblings[Least(Carrying(Canonical))])

\* the alias "f" resolved to the command whose canonical name is "c", below
\* the command that the ambiguous name "a" resolved to
C8_Witness ==
    /\ pc = "parse"
    /\ is_subcommand
    /\ arg = <<"f">>
    /\ current_command = 4
    /\ Canonical = <<"c">>
    /\ Parent(current_command) = 2
    /\ consumed = 2

(* C9: the help callback of a run is that of the nearest command with one  *)
(* on the path from the resolved command up to the root (the root's own    *)
(* included); the default renderer is used only when none on the path has  *)
(* one.                                                                    *)
C9_NearestHelpOnPath ==
    (pc = "done" /\ help_calls # << >>)
        => LET path == PathFromRoot(current_command)
               withHelp == { k \in 1 .. Len(path) : Command(tree, path[k]).help }
           IN  help_calls[1].fn =
                  IF withHelp = {} THEN 0 ELSE path[Greatest(withHelp)]

C11_ShortOptionUnderBareName ==
    ( /\ pc = "parse"
      /\ ~is_subcommand
      /\ ~ignore_options
      /\ Len(arg) >= 3
      /\ arg[1] = Dash
      /\ arg[2] \notin {Dash, EqSign}
      /\ arg[3] = EqSign )
        => /\ Has(opts, << arg[2] >>)
           /\ GetString(opts, << arg[2] >>) = << SubSeq(arg, 4, Len(arg)) >>

(* C12: a long option taken while options are accepted is split at its     *)
(* first "=" only: what precedes it, the leading "--" included, is the key;*)
(* the value is all that follows it, or "true" without "="; get_string of  *)
(* the key gives that value; other keys and pos are unchanged.             *)
C12_LongOptionSplitAtFirstEq ==
    [][ ( /\ TokenStep
          /\ ~ignore_options
          /\ ~is_subcommand'
          /\ Len(arg') > 2
          /\ arg'[1] = Dash
          /\ arg'[2] = Dash )
          => LET a == arg'
                 eqs == { k \in 1 .. Len(a) : a[k] = EqSign }
                 e == IF eqs = {} THEN Len(a) + 1 ELSE Least(eqs)
                 key == [j \in 1 .. e - 1 |-> a[j]]
                 val == IF eqs = {} THEN TrueStr
                        ELSE [j \in 1 .. Len(a) - e |-> a[e + j]]
             IN  /\ DOMAIN opts' = (DOMAIN opts) \cup {key}
                 /\ GetString(opts', key) = << val >>
                 /\ \A k \in (DOMAIN opts) \ {key} : opts'[k] = opts[k]
                 /\ pos' = pos ]_vars

\* "--x" bound "--x" to "true", then "--x=v=w" bound it to "v=w"
C12_Witness ==
    /\ pc = "parse"
    /\ consumed = 2
    /\ arg = <<"-", "-", "x", "=", "v", "=", "w">>
    /\ ~is_subcommand
    /\ ~ignore_options
    /\ DOMAIN opts = { <<"-", "-", "x">> }
    /\ opts[<<"-", "-", "x">>] = <<"v", "=", "w">>

\* the index of the first "=" of token a, Len(a) + 1 when it has none
FirstEq(a) ==
    LET eqs == { k \in 1 .. Len(a) : a[k] = EqSign }
    IN  IF eqs = {} THEN Len(a) + 1 ELSE Least(eqs)

\* the option keys a dash token stands for: the text before the first "="
\* of a long option, a dash and one character for each character of a
\* cluster
TokenKeys(a) ==
    IF Len(a) >= 2 /\ a[2] = Dash
    THEN { [j \in 1 .. FirstEq(a) - 1 |-> a[j]] }
    ELSE { <<Dash, a[k]>> : k \in 2 .. FirstEq(a) - 1 }

\* the value a dash token binds its keys to
TokenValue(a) ==
    IF FirstEq(a) > Len(a) THEN TrueStr
    ELSE [j \in 1 .. Len(a) - FirstEq(a) |-> a[FirstEq(a) + j]]

(* C13: while no "--" has been taken, a token starting with "-" never      *)
(* changes pos and no such token is in pos; a token without a leading dash *)
(* never changes opts, and is appended to pos unless it was consumed as a  *)
(* subcommand name: pos is the plain, unconsumed tokens in input order.    *)
C13_DashTokensNeverPositional ==
    [][ (TokenStep /\ ~ignore_options')
          => /\ arg'[1] = Dash => pos' = pos
             /\ arg'[1] # Dash
                  => /\ opts' = opts
                     /\ is_subcommand' => pos' = pos
                     /\ ~is_subcommand' => pos' = Append(pos, arg')
             /\ \A k \in 1 .. Len(pos') : pos'[k][1] # Dash ]_vars

\* "a" matched the subcommand, the two plain tokens after it are pos[0], pos[1]
C13_Witness ==
    /\ pc = "parse"
    /\ consumed = 3
    /\ ~ignore_options
    /\ current_command = 2
    /\ pos = << <<"a">>, <<"a">> >>
    /\ opts = << >>

(* C14: every token is absorbed into exactly one class: a subcommand       *)
(* descent, the terminator "--", an option token that puts at least one    *)
(* key into opts and leaves pos alone, or a positional that is appended to *)
(* pos and leaves opts alone; no token is lost.                            *)
C14_EveryTokenAbsorbed ==
    [][ TokenStep
          => \/ /\ is_subcommand'
                /\ current_command' # current_command
                /\ opts' = opts /\ pos' = pos
             \/ /\ ~is_subcommand'
                /\ arg' = Terminator /\ ~ignore_options /\ ignore_options'
                /\ opts' = opts /\ pos' = pos
             \/ /\ ~is_subcommand'
                /\ pos' = pos
                /\ TokenKeys(arg') # {}
                /\ TokenKeys(arg') \subseteq DOMAIN opts'
             \/ /\ ~is_subcommand'
                /\ pos' = Append(pos, arg')
                /\ opts' = opts ]_vars

(* C15: an option token binds every key it stands for to its own value,    *)
(* whatever the key was bound to before, and no step changes any other     *)
(* key: the value of a key after the parse is that of the last token that  *)
(* produced it (opts, a map, holds one entry for the key).                 *)
C15_LastOccurrenceWins ==
    [][ TokenStep
          => LET keys == IF /\ ~is_subcommand'
                            /\ ~ignore_options
                            /\ arg' # Terminator
                            /\ arg'[1] = Dash
                         THEN TokenKeys(arg') ELSE {}
             IN  /\ DOMAIN opts' = (DOMAIN opts) \cup keys
                 /\ \A k \in DOMAIN opts' :
                       opts'[k] = IF k \in keys THEN TokenValue(arg') ELSE opts[k] ]_vars

\* "-xy=v" bound -y to "v"; the later "-y" bound it to "true", -x kept "v"
C15_Witness ==
    /\ pc = "parse"
    /\ consumed = 2
    /\ arg = <<"-", "y">>
    /\ ~is_subcommand
    /\ ~ignore_options
    /\ DOMAIN opts = { <<"-", "x">>, <<"-", "y">> }
    /\ opts[<<"-", "x">>] = <<"v">>
    /\ opts[<<"-", "y">>] = TrueStr

====
